---- MODULE Spec2Model ----
(***************************************************************************)
(* Model of the Onezone container entrypoint (docker/onezone.py): the      *)
(* batch-mode branch of __main__, configure, wait_for_workers and the      *)
(* helpers they call, run against the Onepanel management API.             *)
(*                                                                         *)
(* The program is single threaded; pc is its position.  Every HTTP         *)
(* exchange is one step: the program sends a request (lastReq), the        *)
(* server answers (wire), and the program runs on to its next request or   *)
(* to the end of the function it is in.  The server is the environment:    *)
(* it keeps the emergency passphrase and the deployment across restarts    *)
(* of the container.                                                       *)
(***************************************************************************)
EXTENDS Integers, Sequences, FiniteSets, TLC

(***************************************************************************)
(* Bounds of the model.                                                    *)
(***************************************************************************)
\* longest step list a task response carries
MaxSteps == 2
\* most task GETs the server answers with a running status in one run
MaxPolls == 2

(***************************************************************************)
(* Program constants.                                                      *)
(***************************************************************************)
PASSPHRASE_USERNAME == "onepanel"
EMERGENCY_PASSPHRASE_VARIABLE == "ONEPANEL_EMERGENCY_PASSPHRASE"
\* requests.codes
unauthorized == 401
forbidden == 403
conflict == 409
\* as RETRY_LIMIT, but one observation later
RETRY_LIMIT_late == 120 + 1
\* wait_for_workers: retries == 120 raises the timeout
RETRY_LIMIT == 120
\* wait_for_workers: log_errors is retries % 10 == 9
LOG_EVERY == 10

PUT_URL == "/api/v3/onepanel/emergency_passphrase"
POST_URL == "/api/v3/onepanel/zone/configuration"
NAGIOS_URL == "/api/v3/onepanel/zone/nagios"

\* os.environ.get returns None for a variable that is not set
None == "None"
\* no basic-auth credentials on a request
NoAuth == <<>>

(***************************************************************************)
(* Python helpers.                                                         *)
(***************************************************************************)
\* dict.get(key, default)
Get(d, key, default) == IF key \in DOMAIN d THEN d[key] ELSE default

\* as Ok, but only server errors are not ok
Ok_below500(code) == code < 500

\* requests.Response.ok: raise_for_status raises for 400 <= status < 600
Ok(code) == code < 400

NoBody == [raw |-> ""]
NoExc == [type |-> "none", text |-> "", code |-> 0, body |-> NoBody]
Raise(type, text, code, body) ==
    [type |-> type, text |-> text, code |-> code, body |-> body]

\* str.split(sep) on a string held as a sequence of characters
RECURSIVE Split(_, _, _)
Split(chars, sep, cur) ==
    IF chars = <<>> THEN <<cur>>
    ELSE IF Head(chars) = sep
         THEN <<cur>> \o Split(Tail(chars), sep, "")
         ELSE Split(Tail(chars), sep, cur \o Head(chars))

IsPrefix(s, t) == Len(s) <= Len(t) /\ SubSeq(t, 1, Len(s)) = s

(***************************************************************************)
(* format_step: "service:action" -> "* service: action".  The unpacking    *)
(* of the split raises ValueError unless there are exactly two parts.      *)
(***************************************************************************)
format_step_ok(step) == Len(Split(step, ":", "")) = 2

format_step(step) ==
    LET parts == Split(step, ":", "")
    IN  "* " \o parts[1] \o ": " \o parts[2]

\* as get_emergency_passphrase, but a missing variable is returned as None
get_emergency_passphrase_noCheck(env) == [exc |-> NoExc, val |-> env]

\* get_emergency_passphrase: the variable, or MissingVariableError
get_emergency_passphrase(env) ==
    IF env = None
    THEN [exc |-> Raise("MissingVariableError", "Missing environment variable",
                        0, [raw |-> EMERGENCY_PASSPHRASE_VARIABLE]),
          val |-> None]
    ELSE [exc |-> NoExc, val |-> env]

(***************************************************************************)
(* HTTP messages.  A request is [method, url, auth, data]; what comes back *)
(* is a response [kind, code, headers, text] or a transport failure        *)
(* (requests.ConnectionError).  text is [raw |-> s] for an opaque body,    *)
(* [json |-> d] for a JSON document and [xml |-> attrib] for an XML        *)
(* document with the root's attributes.                                    *)
(***************************************************************************)
NoHeaders == [x \in {} |-> x]
ConnectionError == [kind |-> "error", code |-> 0, headers |-> NoHeaders, text |-> NoBody]
Response(code, headers, text) ==
    [kind |-> "response", code |-> code, headers |-> headers, text |-> text]
NoResponse == [kind |-> "none", code |-> 0, headers |-> NoHeaders, text |-> NoBody]
NoRequest == [method |-> "none", url |-> "", auth |-> NoAuth, data |-> NoBody]

\* json.loads / eTree.fromstring: the document, or an error on other text
json_loads_ok(text) == "json" \in DOMAIN text
json_loads(text) == text.json
fromstring_ok(text) == "xml" \in DOMAIN text
fromstring(text) == text.xml

(***************************************************************************)
(* set_emergency_passphrase: one PUT without credentials.                  *)
(***************************************************************************)
PutRequest(passphrase) ==
    [method |-> "PUT", url |-> PUT_URL, auth |-> NoAuth,
     data |-> [json |-> [newPassphrase |-> passphrase]]]

\* as set_emergency_passphrase, but without the check for 401 and 403
set_emergency_passphrase_noAuthCheck(passphrase, w) ==
    LET sent == <<PutRequest(passphrase)>>
    IN  IF w.kind = "error"
        THEN [sent |-> sent, exc |-> Raise("ConnectionError", "", 0, NoBody)]
        ELSE IF ~Ok(w.code)
        THEN [sent |-> sent,
              exc |-> Raise("RuntimeError",
                            "Could not set Onepanel emergency passphrase",
                            w.code, w.text)]
        ELSE [sent |-> sent, exc |-> NoExc]

\* as set_emergency_passphrase, but only 401 is an authentication error
set_emergency_passphrase_only401(passphrase, w) ==
    LET sent == <<PutRequest(passphrase)>>
    IN  IF w.kind = "error"
        THEN [sent |-> sent, exc |-> Raise("ConnectionError", "", 0, NoBody)]
        ELSE IF w.code = unauthorized
        THEN [sent |-> sent,
              exc |-> Raise("AuthenticationError",
                            "Could not set Onepanel emergency passphrase due to authentication error",
                            w.code, w.text)]
        ELSE IF ~Ok(w.code)
        THEN [sent |-> sent,
              exc |-> Raise("RuntimeError",
                            "Could not set Onepanel emergency passphrase",
                            w.code, w.text)]
        ELSE [sent |-> sent, exc |-> NoExc]

set_emergency_passphrase(passphrase, w) ==
    LET sent == <<PutRequest(passphrase)>>
    IN  IF w.kind = "error"
        THEN [sent |-> sent, exc |-> Raise("ConnectionError", "", 0, NoBody)]
        ELSE IF w.code \in {unauthorized, forbidden}
        THEN [sent |-> sent,
              exc |-> Raise("AuthenticationError",
                            "Could not set Onepanel emergency passphrase due to authentication error",
                            w.code, w.text)]
        ELSE IF ~Ok(w.code)
        THEN [sent |-> sent,
              exc |-> Raise("RuntimeError",
                            "Could not set Onepanel emergency passphrase",
                            w.code, w.text)]
        ELSE [sent |-> sent, exc |-> NoExc]

(***************************************************************************)
(* do_auth_request: reads the passphrase, sends the request with basic     *)
(* auth, raises AuthenticationError on 401/403 and returns any other       *)
(* response.  sent is what went out, w what came back.                     *)
(***************************************************************************)
\* as AuthRequest, but the passphrase is also sent as the username
AuthRequest_passphraseAsUser(method, url, data, passphrase) ==
    [method |-> method, url |-> url,
     auth |-> <<passphrase, passphrase>>, data |-> data]

AuthRequest(method, url, data, passphrase) ==
    [method |-> method, url |-> url,
     auth |-> <<PASSPHRASE_USERNAME, passphrase>>, data |-> data]

\* as do_auth_request, but 403 is returned like any other status
do_auth_request_only401(method, url, data, env, w) ==
    LET p == get_emergency_passphrase(env)
        sent == <<AuthRequest(method, url, data, p.val)>>
    IN  IF p.exc.type # "none"
        THEN [sent |-> <<>>, exc |-> p.exc, val |-> w]
        ELSE IF w.kind = "error"
        THEN [sent |-> sent, exc |-> Raise("ConnectionError", "", 0, NoBody), val |-> w]
        ELSE IF w.code = unauthorized
        THEN [sent |-> sent,
              exc |-> Raise("AuthenticationError",
                            "Authentication error. Please ensure that valid emergency passphrase is present",
                            0, [raw |-> EMERGENCY_PASSPHRASE_VARIABLE]),
              val |-> w]
        ELSE [sent |-> sent, exc |-> NoExc, val |-> w]

\* as do_auth_request, but a request answered with 500 or more is sent again
do_auth_request_resend(method, url, data, env, w) ==
    LET p == get_emergency_passphrase(env)
        one == <<AuthRequest(method, url, data, p.val)>>
        sent == IF w.kind = "response" /\ w.code >= 500 THEN one \o one ELSE one
    IN  IF p.exc.type # "none"
        THEN [sent |-> <<>>, exc |-> p.exc, val |-> w]
        ELSE IF w.kind = "error"
        THEN [sent |-> sent, exc |-> Raise("ConnectionError", "", 0, NoBody), val |-> w]
        ELSE IF w.code \in {unauthorized, forbidden}
        THEN [sent |-> sent,
              exc |-> Raise("AuthenticationError",
                            "Authentication error. Please ensure that valid emergency passphrase is present",
                            0, [raw |-> EMERGENCY_PASSPHRASE_VARIABLE]),
              val |-> w]
        ELSE [sent |-> sent, exc |-> NoExc, val |-> w]

do_auth_request(method, url, data, env, w) ==
    LET p == get_emergency_passphrase(env)
        sent == <<AuthRequest(method, url, data, p.val)>>
    IN  IF p.exc.type # "none"
        THEN [sent |-> <<>>, exc |-> p.exc, val |-> w]
        ELSE IF w.kind = "error"
        THEN [sent |-> sent, exc |-> Raise("ConnectionError", "", 0, NoBody), val |-> w]
        ELSE IF w.code \in {unauthorized, forbidden}
        THEN [sent |-> sent,
              exc |-> Raise("AuthenticationError",
                            "Authentication error. Please ensure that valid emergency passphrase is present",
                            0, [raw |-> EMERGENCY_PASSPHRASE_VARIABLE]),
              val |-> w]
        ELSE [sent |-> sent, exc |-> NoExc, val |-> w]

(***************************************************************************)
(* JSON values inside the error field.  An object is an ordered list of    *)
(* <<key, value>> pairs (a Python dict keeps the document's order); a      *)
(* value is a string, an object or a list of strings.                      *)
(***************************************************************************)
Str(s) == [str |-> s]
Dict(pairs) == [dict |-> pairs]
List(l) == [list |-> l]
PyNone == [none |-> TRUE]

\* key in d
Has(d, key) == \E i \in 1..Len(d.dict) : d.dict[i][1] = key
\* d[key]
Lookup(d, key) ==
    LET i == CHOOSE i \in 1..Len(d.dict) : d.dict[i][1] = key IN d.dict[i][2]
\* d.get(key, default)
DictGet(d, key, default) == IF Has(d, key) THEN Lookup(d, key) ELSE default

\* the items of a list of strings as Python prints them
RECURSIVE ReprItems(_)
ReprItems(l) ==
    IF l = <<>> THEN ""
    ELSE "'" \o Head(l) \o "'" \o (IF Len(l) > 1 THEN ", " ELSE "")
             \o ReprItems(Tail(l))

\* '{}'.format(v)
ToText(v) ==
    IF "str" \in DOMAIN v THEN v.str
    ELSE IF "list" \in DOMAIN v THEN "[" \o ReprItems(v.list) \o "]"
    ELSE IF "bool" \in DOMAIN v THEN (IF v.bool THEN "True" ELSE "False")
    ELSE "None"

\* WRAP_KWARGS['width']
WRAP_WIDTH == 100
\* textwrap.fill of a text that fits the width: one line behind its indent
fill(text, initial_indent) == initial_indent \o text

\* hostnames are ordered as Python orders strings
HostRank == [h1 |-> 1, h2 |-> 2, h3 |-> 3]
\* as sorted, but the list is left in the order given
sorted_asGiven(l) == l

RECURSIVE sorted(_)
sorted(l) ==
    IF l = <<>> THEN <<>>
    ELSE LET m == CHOOSE i \in 1..Len(l) :
                     \A j \in 1..Len(l) : HostRank[l[i]] <= HostRank[l[j]]
         IN  <<l[m]>> \o sorted(SubSeq(l, 1, m - 1) \o SubSeq(l, m + 1, Len(l)))

(***************************************************************************)
(* unwrap_error_with_hosts: the error inside one errorOnNodes wrapper,     *)
(* with the wrapper's hostnames.                                           *)
(***************************************************************************)
unwrap_error_with_hosts(error_obj) ==
    LET error_id == DictGet(error_obj, "id", PyNone)
        description == DictGet(error_obj, "description", PyNone)
        details == DictGet(error_obj, "details", Dict(<<>>))
    IN  IF error_id = Str("errorOnNodes") /\ Has(details, "error")
        THEN [error_id |-> Lookup(Lookup(details, "error"), "id"),
              description |-> Lookup(Lookup(details, "error"), "description"),
              details |-> DictGet(Lookup(details, "error"), "details", Dict(<<>>)),
              nodes |-> Lookup(details, "hostnames").list]
        ELSE [error_id |-> error_id, description |-> description,
              details |-> details, nodes |-> <<>>]

(***************************************************************************)
(* format_dict: one line per scalar entry, a heading and a deeper indent   *)
(* for a nested object.  The result is the list of lines.                  *)
(***************************************************************************)
RECURSIVE format_dict(_, _)
format_dict(details, indent) ==
    IF details.dict = <<>> THEN <<>>
    ELSE LET key == Head(details.dict)[1]
             value == Head(details.dict)[2]
             rest == format_dict(Dict(Tail(details.dict)), indent)
         IN  IF "dict" \in DOMAIN value
             THEN <<indent \o key \o ":">> \o format_dict(value, indent \o "  ") \o rest
             ELSE <<fill(key \o ": " \o ToText(value), indent)>> \o rest

(***************************************************************************)
(* format_error: the message of the RuntimeError configure raises on a     *)
(* status other than ok, as its list of lines.                             *)
(***************************************************************************)
UnexpectedResponse == <<"Error: unexpected server response">>

format_error(response) ==
    IF "error" \notin DOMAIN response
    THEN UnexpectedResponse
    ELSE LET u == unwrap_error_with_hosts(response.error)
             details_lines == format_dict(u.details, "    ")
             details_str == IF details_lines # <<>>
                            THEN <<"  details:">> \o details_lines \o <<"">>
                            ELSE <<"">>
             l == sorted(u.nodes)
             nodes_str == IF l # <<>>
                          THEN <<"  nodes:">> \o [i \in 1..Len(l) |-> "    " \o l[i]]
                          ELSE <<"">>
             descr_str == fill("description: " \o u.description.str, "  ")
         IN  <<"Error:", "  id: " \o ToText(u.error_id)>> \o nodes_str
                 \o <<descr_str>> \o details_str

(***************************************************************************)
(* get_batch_config: the request built from ONEZONE_CONFIG.  The variable  *)
(* is NotSet or holds a YAML text, modelled by the value it stands for: a  *)
(* mapping (Dict), a scalar (Str, Bool) or nothing (PyNone, the empty      *)
(* text).                                                                  *)
(***************************************************************************)
Bool(b) == [bool |-> b]
NotSet == [unset |-> TRUE]
Yaml(v) == [yaml |-> v]

\* os.environ.get('ONEZONE_CONFIG', '')
environ_get(variable) == IF variable = NotSet THEN Yaml(PyNone) ELSE variable
\* yaml.safe_load and yaml.dump
safe_load(text) == text.yaml
yaml_dump(v) == Yaml(v)

\* not v
Falsy(v) == v \in {PyNone, Dict(<<>>), List(<<>>), Str(""), Bool(FALSE)}

\* d[key] = value: in place when the key is there, at the end when not
DictSet(d, key, value) ==
    IF Has(d, key)
    THEN Dict([i \in 1..Len(d.dict) |->
                 IF d.dict[i][1] = key THEN <<key, value>> ELSE d.dict[i]])
    ELSE Dict(Append(d.dict, <<key, value>>))

\* as get_batch_config, but interactiveDeployment is set to False whatever
\* the caller gave
get_batch_config_overwrite(variable) ==
    LET batch_config == safe_load(environ_get(variable))
    IN  IF Falsy(batch_config)
        THEN [exc |-> NoExc, val |-> Dict(<<>>)]
        ELSE IF "dict" \notin DOMAIN batch_config
        THEN [exc |-> Raise("AttributeError", "get", 0, NoBody), val |-> PyNone]
        ELSE LET onepanel_config == DictGet(batch_config, "onepanel", Dict(<<>>))
             IN  IF "dict" \notin DOMAIN onepanel_config
                 THEN [exc |-> Raise("TypeError", "interactiveDeployment", 0, NoBody),
                       val |-> PyNone]
                 ELSE [exc |-> NoExc,
                       val |-> DictSet(batch_config, "onepanel",
                                       DictSet(onepanel_config,
                                               "interactiveDeployment", Bool(FALSE)))]

\* a document that is no mapping has no get (AttributeError); an onepanel
\* entry that is no mapping (None, or a string without the key's name in it)
\* fails at line 217 or 218 (TypeError)
get_batch_config(variable) ==
    LET batch_config == safe_load(environ_get(variable))
    IN  IF Falsy(batch_config)
        THEN [exc |-> NoExc, val |-> Dict(<<>>)]
        ELSE IF "dict" \notin DOMAIN batch_config
        THEN [exc |-> Raise("AttributeError", "get", 0, NoBody), val |-> PyNone]
        ELSE LET onepanel_config == DictGet(batch_config, "onepanel", Dict(<<>>))
             IN  IF "dict" \notin DOMAIN onepanel_config
                 THEN [exc |-> Raise("TypeError", "interactiveDeployment", 0, NoBody),
                       val |-> PyNone]
                 ELSE IF ~Has(onepanel_config, "interactiveDeployment")
                 THEN [exc |-> NoExc,
                       val |-> DictSet(batch_config, "onepanel",
                                       DictSet(onepanel_config,
                                               "interactiveDeployment", Bool(FALSE)))]
                 ELSE [exc |-> NoExc, val |-> batch_config]

(***************************************************************************)
(* The environment: what the variables and the server may hold.            *)
(***************************************************************************)
Passphrases == {"p1", "p2"}
ErrorTexts == {[raw |-> "e1"], [raw |-> "e2"]}
TaskLocation == "/api/v3/onepanel/tasks/1"
\* ONEZONE_CONFIG: not set, empty, a scalar, or a mapping with or without
\* a cluster entry and an onepanel entry
OnepanelEntries ==
    {PyNone, Str("x")} \cup
    {Dict(l) : l \in {<<>>,
                      << <<"interactiveDeployment", Bool(TRUE)>> >>,
                      << <<"interactiveDeployment", Bool(FALSE)>> >>,
                      << <<"x", Str("1")>> >>,
                      << <<"x", Str("1")>>, <<"interactiveDeployment", Bool(TRUE)>> >>,
                      << <<"interactiveDeployment", Bool(FALSE)>>, <<"x", Str("1")>> >>}}
ClusterEntries == {<<>>, << <<"cluster", Str("c")>> >>}
OnezoneConfigs ==
    {NotSet, Yaml(PyNone), Yaml(Str("x"))}
    \cup {Yaml(Dict(c)) : c \in ClusterEntries}
    \cup {Yaml(Dict(<< <<"onepanel", o>> >> \o c)) : o \in OnepanelEntries, c \in ClusterEntries}
    \cup {Yaml(Dict(c \o << <<"onepanel", o>> >>)) : o \in OnepanelEntries, c \in ClusterEntries}
\* no request built yet, or no longer needed
NoConfig == [unread |-> TRUE]

\* steps are "service:action", held as their characters
StepSet == {<<"a", ":", "x">>, <<"b", ":", "y">>}
StepLists == UNION {[1..n -> StepSet] : n \in 0..MaxSteps}

ErrX == Dict(<< <<"id", Str("X")>>, <<"description", Str("bad thing")>> >>)
ErrOnNodes ==
    Dict(<< <<"id", Str("errorOnNodes")>>,
            <<"description", Str("error on nodes")>>,
            <<"details", Dict(<< <<"error", ErrX>>,
                                 <<"hostnames", List(<<"h2", "h1">>)>> >>)>> >>)
\* an errorOnNodes wrapper around another wrapper
ErrNested ==
    Dict(<< <<"id", Str("errorOnNodes")>>,
            <<"description", Str("outer")>>,
            <<"details", Dict(<< <<"error", ErrOnNodes>>,
                                 <<"hostnames", List(<<"h3", "h1">>)>> >>)>> >>)
ErrorObjs == {ErrX, ErrOnNodes, ErrNested}

\* the JSON documents a task GET may carry: {status?, steps?, error?}; the
\* error field comes only with a status that is neither running nor ok
StatusFields == {NoHeaders} \cup {[status |-> st] : st \in {"running", "ok", "error", "unknown"}}
StepsFields == {NoHeaders} \cup {[steps |-> l] : l \in StepLists}
ErrorFields == {NoHeaders} \cup {[error |-> e] : e \in ErrorObjs}
TaskBodies ==
    {st @@ sp @@ er : st \in StatusFields, sp \in StepsFields, er \in ErrorFields}
Settled(body) == "status" \notin DOMAIN body \/ body.status \notin {"running", "ok"}
IsRunning(body) == "status" \in DOMAIN body /\ body.status = "running"

Rejections == {Response(c, NoHeaders, NoBody) : c \in {unauthorized, forbidden}}
Failures == {Response(c, NoHeaders, t) : c \in {404, 500}, t \in ErrorTexts}

NoCall == [fn |-> "none", sent |-> <<>>, exc |-> "none", val |-> NoResponse]

VARIABLES
    pc,             \* position of the program
    restarted,      \* this is the second start of the container
    envPassphrase,  \* os.environ[ONEPANEL_EMERGENCY_PASSPHRASE], or None
    batchMode,      \* ONEPANEL_BATCH_MODE is 'true'
    debugMode,      \* ONEPANEL_DEBUG_MODE is 'true': "true" or "false", and
                    \* "unread" until line 543
    srvPassphrase,  \* the server's emergency passphrase, or None
    srvDeployed,    \* the server holds a deployment
    wire,           \* the answer to the last request, while configure or
                    \* wait_for_workers is at work on it
    call,           \* that request's call of set_emergency_passphrase or
                    \* do_auth_request: what it sent, raised and returned
    nPut, nPost, nGet, nHealth,   \* requests sent in this run, by kind
    onezoneConfig,  \* os.environ[ONEZONE_CONFIG] as line 210 read it, NoConfig
                    \* before that and once the request is of no more use
    config,         \* configure: config, NoConfig once it is of no more use
    passphrase,     \* configure: passphrase
    r,              \* configure: r
    loc,            \* configure: loc
    status,         \* configure: status
    steps,          \* configure: steps
    resp,           \* configure: resp
    logged,         \* the lines written by log(format_step(step))
    appendOnly,     \* history: every task response so far carried the steps
                    \* of the one before it, then new ones
    reported,       \* history: the steps reported so far, while appendOnly
    first,          \* history: how configure ended in the first start
    sleeps,         \* calls of time.sleep(1) in this run
    retries,        \* wait_for_workers: retries
    retryLogs,      \* the 'retrying...' lines nagios_up wrote
    ret,            \* what configure returned: "True", "False" or "none"
    exc,            \* the exception raised in the try block of __main__
    caught,         \* the except clause of __main__ that handled it
    lockFile,       \* SERVICE_READY_LOCK_FILE exists
    exitCode        \* status of sys.exit, -1 while the process lives

envVars == <<envPassphrase, batchMode, debugMode>>
srvVars == <<srvPassphrase, srvDeployed>>
netVars == <<wire, call, nPut, nPost, nGet, nHealth>>
cfgVars == <<onezoneConfig, config, passphrase, r, loc, status, steps, resp>>
waitVars == <<retries, retryLogs>>
endVars == <<ret, exc, caught, lockFile, exitCode>>
histVars == <<appendOnly, reported, first>>
vars == <<pc, restarted, envVars, srvVars, netVars, cfgVars, logged, sleeps,
          waitVars, endVars, histVars>>

(***************************************************************************)
(* The server.  A request without the server's passphrase is rejected      *)
(* once a passphrase is set; any request may fail in transport, be         *)
(* rejected or be answered with an error status.                           *)
(***************************************************************************)
Authorized(req) ==
    srvPassphrase = None \/ req.auth = <<PASSPHRASE_USERNAME, srvPassphrase>>

PutAnswers(req) ==
    {ConnectionError} \cup
    IF ~Authorized(req) THEN Rejections
    ELSE {Response(204, NoHeaders, NoBody)} \cup Failures

PostAnswers(req) ==
    {ConnectionError} \cup
    IF ~Authorized(req) THEN Rejections
    ELSE IF srvDeployed THEN {Response(conflict, NoHeaders, t) : t \in ErrorTexts}
    ELSE {Response(201, [location |-> TaskLocation], NoBody),
          Response(200, NoHeaders, NoBody)} \cup Failures \cup Rejections

TaskAnswers(req) ==
    {ConnectionError} \cup
    IF ~Authorized(req) THEN Rejections
    ELSE {Response(200, NoHeaders, [json |-> b]) :
              b \in {b \in TaskBodies :
                        /\ "error" \in DOMAIN b => Settled(b)
                        /\ IsRunning(b) => nGet < MaxPolls}}
         \cup {Response(200, NoHeaders, [raw |-> "<html>"])}
         \cup Failures \cup Rejections

HealthAnswers(req) ==
    {ConnectionError} \cup
    IF ~Authorized(req) THEN Rejections
    ELSE {Response(200, NoHeaders, [xml |-> a]) :
              a \in {[status |-> "ok"], [status |-> "error"], NoHeaders}}
         \cup {Response(200, NoHeaders, [raw |-> "<html"]),
               Response(503, NoHeaders, NoBody)}
         \cup Rejections

(***************************************************************************)
(* The for loop of configure over the steps of one response: a step equal  *)
(* to the head of the stored list pops that head, any other step is        *)
(* logged.  ok is FALSE when format_step raised, with what was logged      *)
(* before it.                                                              *)
(***************************************************************************)
\* as DiffSteps, but a step equal to the head of the stored list leaves
\* that head in place
RECURSIVE DiffSteps_noPop(_, _, _)
DiffSteps_noPop(new, old, out) ==
    IF new = <<>> THEN [ok |-> TRUE, steps |-> old, out |-> out]
    ELSE IF old # <<>> /\ Head(new) = Head(old)
         THEN DiffSteps_noPop(Tail(new), old, out)
         ELSE IF format_step_ok(Head(new))
              THEN DiffSteps_noPop(Tail(new), old, Append(out, format_step(Head(new))))
              ELSE [ok |-> FALSE, steps |-> old, out |-> out]

RECURSIVE DiffSteps(_, _, _)
DiffSteps(new, old, out) ==
    IF new = <<>> THEN [ok |-> TRUE, steps |-> old, out |-> out]
    ELSE IF old # <<>> /\ Head(new) = Head(old)
         THEN DiffSteps(Tail(new), Tail(old), out)
         ELSE IF format_step_ok(Head(new))
              THEN DiffSteps(Tail(new), old, Append(out, format_step(Head(new))))
              ELSE [ok |-> FALSE, steps |-> old, out |-> out]

\* as response_status, but a missing status counts as running
response_status_defaultRunning(body) == Get(body, "status", "running")

\* as response_status, but a missing status counts as ok
response_status_defaultOk(body) == Get(body, "status", "ok")

\* configure, line 271: the status of a task response, error when missing
response_status(body) == Get(body, "status", "error")

\* a task response whose steps are the stored ones and then new ones; a
\* last response may leave the steps out
Grows(old, body) ==
    \/ IsPrefix(old, Get(body, "steps", <<>>))
    \/ response_status(body) # "running" /\ "steps" \notin DOMAIN body

\* the record of a call, for the variable call
Called(fn, res, val) ==
    [fn |-> fn, sent |-> res.sent, exc |-> res.exc.type,
     val |-> IF res.exc.type = "none" THEN val ELSE NoResponse]

\* the locals of configure are gone when it returns or raises
LocalsGone ==
    /\ onezoneConfig' = NoConfig
    /\ config' = NoConfig
    /\ passphrase' = None
    /\ r' = NoResponse
    /\ loc' = ""
    /\ status' = ""
    /\ steps' = <<>>
    /\ resp' = NoHeaders

\* back in __main__ the response object of the last request is gone
ResponseGone ==
    /\ wire' = NoResponse
    /\ call' = NoCall
    /\ UNCHANGED <<nPut, nPost, nGet, nHealth>>

\* configure returns v to __main__
Returns(v) ==
    /\ ret' = v
    /\ pc' = "returned"
    /\ UNCHANGED exc
    /\ LocalsGone

\* e is raised into the try block of __main__
Raises(e) ==
    /\ exc' = e
    /\ pc' = "except"
    /\ UNCHANGED ret
    /\ LocalsGone

Init ==
    /\ pc = "start"
    /\ restarted = FALSE
    /\ envPassphrase \in Passphrases \cup {None}
    /\ batchMode \in BOOLEAN
    /\ debugMode = "unread"
    /\ srvPassphrase \in Passphrases \cup {None}
    /\ srvDeployed \in BOOLEAN
    /\ wire = NoResponse
    /\ call = NoCall
    /\ nPut = 0 /\ nPost = 0 /\ nGet = 0 /\ nHealth = 0
    /\ onezoneConfig = NoConfig
    /\ config = NoConfig
    /\ passphrase = None
    /\ r = NoResponse
    /\ loc = ""
    /\ status = ""
    /\ steps = <<>>
    /\ resp = NoHeaders
    /\ logged = <<>>
    /\ appendOnly = TRUE
    /\ reported = <<>>
    /\ first = [ret |-> "none", posted |-> FALSE]
    /\ sleeps = 0
    /\ retries = 0
    /\ retryLogs = 0
    /\ ret = "none"
    /\ exc = NoExc
    /\ caught = "none"
    /\ lockFile = FALSE
    /\ exitCode = -1

(***************************************************************************)
(* __main__, lines 508-512: outside batch mode nothing is configured; in   *)
(* batch mode get_batch_config builds the request configure is called      *)
(* with.                                                                   *)
(***************************************************************************)
Start ==
    /\ pc = "start"
    /\ IF ~batchMode
       THEN /\ pc' = "details"
            /\ UNCHANGED <<cfgVars, ret, exc>>
       ELSE \E variable \in OnezoneConfigs :
              LET batch_config == get_batch_config(variable)
              IN  IF batch_config.exc.type # "none"
                  THEN Raises(batch_config.exc)
                  ELSE /\ onezoneConfig' = variable
                       /\ config' = batch_config.val
                       /\ pc' = "configure"
                       /\ UNCHANGED <<passphrase, r, loc, status, steps, resp, ret, exc>>
    /\ UNCHANGED <<restarted, envVars, srvVars, netVars, logged, sleeps, waitVars,
                   caught, lockFile, exitCode, histVars>>

\* configure, line 230: the passphrase, or MissingVariableError
Configure ==
    /\ pc = "configure"
    /\ LET p == get_emergency_passphrase(envPassphrase)
       IN  IF p.exc.type # "none"
           THEN Raises(p.exc)
           ELSE /\ passphrase' = p.val
                /\ pc' = "put"
                /\ UNCHANGED <<onezoneConfig, config, r, loc, status, steps, resp,
                               ret, exc>>
    /\ UNCHANGED <<restarted, envVars, srvVars, netVars, logged, sleeps, waitVars,
                   caught, lockFile, exitCode, histVars>>

(***************************************************************************)
(* configure, lines 232-236: set the passphrase; an authentication error   *)
(* means an existing deployment and configure returns False.               *)
(***************************************************************************)
SetPassphrase ==
    /\ pc = "put"
    /\ \E w \in PutAnswers(PutRequest(passphrase)) :
          LET res == set_emergency_passphrase(passphrase, w)
          IN  /\ wire' = w
              /\ call' = Called("set_emergency_passphrase", res, NoResponse)
              /\ nPut' = nPut + Len(res.sent)
              /\ srvPassphrase' =
                    IF res.sent # <<>> /\ w.kind = "response" /\ w.code = 204
                    THEN res.sent[1].data.json.newPassphrase ELSE srvPassphrase
              /\ IF res.exc.type = "AuthenticationError"
                 THEN Returns("False")
                 ELSE IF res.exc.type # "none"
                 THEN Raises(res.exc)
                 ELSE /\ pc' = "post"
                      /\ UNCHANGED <<cfgVars, ret, exc>>
    /\ UNCHANGED <<restarted, envVars, srvDeployed, nPost, nGet, nHealth,
                   logged, sleeps, waitVars, caught, lockFile, exitCode, histVars>>

(***************************************************************************)
(* configure, lines 238-260: post the configuration; 409 returns False,    *)
(* another status that is not ok raises, an ok one starts the polling at   *)
(* the Location header.                                                    *)
(***************************************************************************)
PostConfiguration ==
    /\ pc = "post"
    /\ \E w \in PostAnswers(AuthRequest("POST", POST_URL, yaml_dump(config),
                                       envPassphrase)) :
          LET res == do_auth_request("POST", POST_URL, yaml_dump(config),
                                     envPassphrase, w)
          IN  /\ wire' = w
              /\ call' = Called("do_auth_request", res, res.val)
              /\ nPost' = nPost + Len(res.sent)
              /\ srvDeployed' =
                    IF res.sent # <<>> /\ w.kind = "response" /\ w.code = 201
                    THEN TRUE ELSE srvDeployed
              /\ IF res.exc.type # "none"
                 THEN Raises(res.exc)
                 ELSE IF res.val.code = conflict
                 THEN Returns("False")
                 ELSE IF ~Ok(res.val.code)
                 THEN Raises(Raise("RuntimeError", "Failed to start configuration process",
                                   res.val.code, res.val.text))
                 ELSE IF "location" \notin DOMAIN res.val.headers
                 THEN Raises(Raise("KeyError", "location", 0, NoBody))
                 ELSE /\ r' = res.val
                      /\ loc' = res.val.headers.location
                      /\ status' = "running"
                      /\ steps' = <<>>
                      /\ resp' = NoHeaders
                      /\ onezoneConfig' = NoConfig
                      /\ config' = NoConfig
                      /\ pc' = "poll"
                      /\ UNCHANGED <<passphrase, ret, exc>>
    /\ UNCHANGED <<restarted, envVars, srvPassphrase, nPut, nGet, nHealth,
                   logged, sleeps, waitVars, caught, lockFile, exitCode, histVars>>

(***************************************************************************)
(* configure, lines 261-282: one iteration of the polling loop, and what   *)
(* follows the loop when the status is no longer running.                  *)
(***************************************************************************)
Poll ==
    /\ pc = "poll"
    /\ status = "running"
    /\ \E w \in TaskAnswers(AuthRequest("GET", loc, NoBody, envPassphrase)) :
          LET res == do_auth_request("GET", loc, NoBody, envPassphrase, w)
          IN  /\ wire' = w
              /\ call' = Called("do_auth_request", res, res.val)
              /\ nGet' = nGet + Len(res.sent)
              /\ IF res.exc.type # "none"
                 THEN Raises(res.exc) /\ UNCHANGED <<logged, sleeps, appendOnly, reported>>
                 ELSE IF ~Ok(res.val.code)
                 THEN /\ Raises(Raise("RuntimeError", "Unexpected configuration error",
                                      0, res.val.text))
                      /\ UNCHANGED <<logged, sleeps, appendOnly, reported>>
                 ELSE IF ~json_loads_ok(res.val.text)
                 THEN /\ Raises(Raise("ValueError", "json.loads", 0, res.val.text))
                      /\ UNCHANGED <<logged, sleeps, appendOnly, reported>>
                 ELSE LET body == json_loads(res.val.text)
                          new == response_status(body)
                          d == DiffSteps(Get(body, "steps", <<>>), steps, logged)
                          grew == Grows(steps, body)
                      IN  /\ logged' = d.out
                          /\ appendOnly' = (appendOnly /\ grew)
                          /\ reported' = IF ~(appendOnly /\ grew) THEN <<>>
                                         ELSE IF "steps" \in DOMAIN body THEN body.steps
                                         ELSE reported
                          /\ IF ~d.ok
                             THEN /\ Raises(Raise("ValueError", "format_step", 0, NoBody))
                                  /\ UNCHANGED sleeps
                             ELSE /\ sleeps' = sleeps + 1
                                  /\ IF new = "running"
                                     THEN /\ r' = res.val
                                          /\ resp' = body
                                          /\ status' = new
                                          /\ steps' = Get(body, "steps", <<>>)
                                          /\ pc' = "poll"
                                          /\ UNCHANGED <<onezoneConfig, config, passphrase, loc,
                                                         ret, exc>>
                                     ELSE IF new # "ok"
                                     THEN Raises(Raise("RuntimeError", "format_error", 0,
                                                       [lines |-> format_error(body)]))
                                     ELSE Returns("True")
    /\ UNCHANGED <<restarted, envVars, srvVars, nPut, nPost, nHealth,
                   waitVars, caught, lockFile, exitCode, first>>

(***************************************************************************)
(* __main__, lines 512-517: after configure returned.                      *)
(***************************************************************************)
AfterConfigure ==
    /\ pc = "returned"
    /\ IF ret = "True" THEN pc' = "details" ELSE pc' = "wait"
    /\ retries' = 0
    /\ ResponseGone
    /\ UNCHANGED <<restarted, envVars, srvVars, cfgVars, logged, sleeps,
                   retryLogs, endVars, histVars>>

(***************************************************************************)
(* nagios_up: one health request.  Every exception of the request, the     *)
(* AuthenticationError of do_auth_request included, and every status that  *)
(* is not ok give False; the XML of an ok response is parsed outside the   *)
(* try block.                                                              *)
(***************************************************************************)
nagios_up(env, w, log_errors) ==
    LET res == do_auth_request("GET", NAGIOS_URL, NoBody, env, w)
        logs == IF log_errors THEN 1 ELSE 0
    IN  IF res.exc.type # "none"
        THEN [call |-> res, exc |-> NoExc, up |-> FALSE, logs |-> logs]
        ELSE IF ~Ok(res.val.code)
        THEN [call |-> res, exc |-> NoExc, up |-> FALSE, logs |-> logs]
        ELSE IF ~fromstring_ok(res.val.text)
        THEN [call |-> res, exc |-> Raise("ParseError", "fromstring", 0, res.val.text),
              up |-> FALSE, logs |-> 0]
        ELSE IF "status" \notin DOMAIN fromstring(res.val.text)
        THEN [call |-> res, exc |-> Raise("KeyError", "status", 0, NoBody),
              up |-> FALSE, logs |-> 0]
        ELSE [call |-> res, exc |-> NoExc,
              up |-> fromstring(res.val.text).status = "ok", logs |-> 0]

(***************************************************************************)
(* wait_for_workers, lines 337-341: one iteration of the loop.             *)
(***************************************************************************)
WaitForWorkers ==
    /\ pc = "wait"
    /\ \E w \in HealthAnswers(AuthRequest("GET", NAGIOS_URL, NoBody, envPassphrase)) :
          LET n == nagios_up(envPassphrase, w, retries % LOG_EVERY = 9)
          IN  /\ wire' = w
              /\ call' = Called("do_auth_request", n.call, n.call.val)
              /\ nHealth' = nHealth + Len(n.call.sent)
              /\ retryLogs' = retryLogs + n.logs
              /\ IF n.exc.type # "none"
                 THEN Raises(n.exc) /\ UNCHANGED <<retries, sleeps>>
                 ELSE IF n.up
                 THEN /\ pc' = "details"
                      /\ UNCHANGED <<retries, sleeps, cfgVars, ret, exc>>
                 ELSE /\ sleeps' = sleeps + 1
                      /\ retries' = retries + 1
                      /\ IF retries + 1 = RETRY_LIMIT
                         THEN Raises(Raise("RuntimeError",
                                           "Timeout waiting for the Onepanel service readiness",
                                           0, NoBody))
                         ELSE /\ pc' = "wait"
                              /\ UNCHANGED <<cfgVars, ret, exc>>
    /\ UNCHANGED <<restarted, envVars, srvVars, nPut, nPost, nGet, logged,
                   caught, lockFile, exitCode, histVars>>

(***************************************************************************)
(* __main__, lines 518-552: the except clauses.  AuthenticationError and   *)
(* the missing passphrase are logged and startup goes on; anything else    *)
(* reaches the outer clause, which reads ONEPANEL_DEBUG_MODE and exits     *)
(* with 1 unless it is 'true'.                                             *)
(***************************************************************************)
HandleException ==
    /\ pc = "except"
    /\ IF exc.type = "AuthenticationError"
       THEN /\ caught' = "AuthenticationError"
            /\ pc' = "details"
            /\ UNCHANGED <<exitCode, debugMode>>
       ELSE IF exc.type = "MissingVariableError"
       THEN /\ caught' = "MissingVariableError"
            /\ pc' = "details"
            /\ UNCHANGED <<exitCode, debugMode>>
       ELSE /\ caught' = "Exception"
            /\ \E d \in {"true", "false"} :
                  /\ debugMode' = d
                  /\ IF d = "true"
                     THEN pc' = "ready" /\ UNCHANGED exitCode
                     ELSE pc' = "exited" /\ exitCode' = 1
    /\ ResponseGone
    /\ UNCHANGED <<restarted, envPassphrase, batchMode, srvVars, cfgVars,
                   logged, sleeps, waitVars, ret, exc, lockFile, histVars>>

\* __main__, line 540: show_details
ShowDetails ==
    /\ pc = "details"
    /\ pc' = "ready"
    /\ ResponseGone
    /\ UNCHANGED <<restarted, envVars, srvVars, cfgVars, logged, sleeps,
                   waitVars, endVars, histVars>>

\* as ServiceReady, but also after sys.exit
ServiceReady_afterExit ==
    /\ pc \in {"ready", "exited"}
    /\ lockFile' = TRUE
    /\ pc' = "serving"
    /\ UNCHANGED <<restarted, envVars, srvVars, netVars, cfgVars, logged, sleeps,
                   waitVars, ret, exc, caught, exitCode, histVars>>

\* __main__, lines 554-557: the lock file, then the logs for ever
ServiceReady ==
    /\ pc = "ready"
    /\ lockFile' = TRUE
    /\ pc' = "serving"
    /\ UNCHANGED <<restarted, envVars, srvVars, netVars, cfgVars, logged, sleeps,
                   waitVars, ret, exc, caught, exitCode, histVars>>

(***************************************************************************)
(* The container is started once more, with any passphrase, against the    *)
(* same server.                                                            *)
(***************************************************************************)
Restart ==
    /\ pc \in {"serving", "exited"}
    /\ ~restarted
    /\ restarted' = TRUE
    /\ pc' = "start"
    /\ envPassphrase' \in Passphrases \cup {None}
    /\ debugMode' = "unread"
    /\ wire' = NoResponse
    /\ call' = NoCall
    /\ nPut' = 0 /\ nPost' = 0 /\ nGet' = 0 /\ nHealth' = 0
    /\ logged' = <<>>
    /\ appendOnly' = TRUE
    /\ reported' = <<>>
    /\ first' = [ret |-> ret, posted |-> nPost > 0]
    /\ sleeps' = 0
    /\ retries' = 0
    /\ retryLogs' = 0
    /\ ret' = "none"
    /\ exc' = NoExc
    /\ caught' = "none"
    /\ lockFile' = FALSE
    /\ exitCode' = -1
    /\ UNCHANGED <<batchMode, srvVars, cfgVars>>

Next ==
    \/ Start
    \/ Configure
    \/ SetPassphrase
    \/ PostConfiguration
    \/ Poll
    \/ AfterConfigure
    \/ WaitForWorkers
    \/ HandleException
    \/ ShowDetails
    \/ ServiceReady
    \/ Restart

Spec == Init /\ [][Next]_vars

(***************************************************************************)
(* One call of configure, from the start of the container to the return    *)
(* or the exception of configure, under the assumption that an iteration   *)
(* of the polling loop always completes: the request is answered or fails, *)
(* and time.sleep returns.                                                 *)
(***************************************************************************)
ConfigureNext ==
    \/ Start
    \/ Configure
    \/ SetPassphrase
    \/ PostConfiguration
    \/ Poll

\* what every step of Poll does; in the loop it is always possible
PollStep == pc = "poll" /\ nGet' = nGet + 1

PollSpec == Init /\ [][ConfigureNext]_vars /\ WF_nGet(PollStep)

(***************************************************************************)
(* Properties.                                                             *)
(***************************************************************************)
\* the state holds the answer to a request of the given method and url
Answered(method, url) ==
    /\ wire.kind = "response"
    /\ call.sent # <<>>
    /\ call.sent[1].method = method
    /\ call.sent[1].url = url

PutRejected ==
    /\ Answered("PUT", PUT_URL)
    /\ wire.code \in {401, 403}

\* C1: when the passphrase PUT is answered with 401 or 403, configure
\* returns False at once, with no exception, and from then on the run sends
\* neither a configuration POST nor a task GET.
C1_RejectedPutReturnsFalse ==
    /\ [](PutRejected =>
            /\ pc = "returned" /\ ret = "False" /\ exc = NoExc
            /\ nPost = 0 /\ nGet = 0)
    /\ [][(ret = "False" /\ ret' = "False") => (nPost' = nPost /\ nGet' = nGet)]_vars

C1_Witness == PutRejected /\ ret = "False" /\ wire.code = 403

\* configure has returned or raised, and __main__ has not yet gone on (an
\* AttributeError or TypeError is one of get_batch_config, before the call)
ConfigureDone ==
    \/ pc = "returned"
    \/ /\ pc = "except" /\ ret = "none"
       /\ exc.type \notin {"AttributeError", "TypeError"}

\* C2 as claimed, in its weakest reading: whatever the first call did, a
\* second call with a passphrase that returns, returns False.
C2_Original ==
    (restarted /\ pc = "returned" /\ envPassphrase # None) => ret = "False"

\* C2: when the first call got past its passphrase PUT (it returned, or it
\* raised after sending the configuration POST), a second call against the
\* same server, with any passphrase and with its PUT answered, returns False.
C2_SecondCallAlreadyConfigured ==
    (/\ restarted /\ ConfigureDone /\ envPassphrase # None
     /\ exc.type # "ConnectionError"
     /\ (first.ret # "none" \/ first.posted))
        => (pc = "returned" /\ ret = "False" /\ nPost = 0)

C2_Witness ==
    /\ restarted /\ pc = "returned" /\ ret = "False"
    /\ first.ret = "True"
    /\ envPassphrase # srvPassphrase

\* 2xx
Success(code) == code \in 200..299

\* C3 as claimed: after the configuration POST, 409 returns False, every
\* other status outside 2xx raises RuntimeError with the status and the body,
\* and every 2xx starts the polling at the Location header.
C3_Original ==
    Answered("POST", POST_URL) =>
        IF wire.code = 409
        THEN pc = "returned" /\ ret = "False"
        ELSE IF ~Success(wire.code)
        THEN /\ pc = "except" /\ exc.type = "RuntimeError"
             /\ exc.code = wire.code /\ exc.body = wire.text
        ELSE "location" \in DOMAIN wire.headers
                => (pc = "poll" /\ loc = wire.headers.location)

\* C3: after the configuration POST, 409 returns False; 401 and 403 raise
\* AuthenticationError; every other status of 400 or more raises RuntimeError
\* with the status and the body; a status below 400 (every 2xx) starts the
\* polling at the Location header (KeyError when the response has none).
C3_PostStatus ==
    Answered("POST", POST_URL) =>
        IF wire.code = 409
        THEN pc = "returned" /\ ret = "False" /\ exc = NoExc
        ELSE IF wire.code \in {401, 403}
        THEN pc = "except" /\ exc.type = "AuthenticationError" /\ ret = "none"
        ELSE IF wire.code >= 400
        THEN /\ pc = "except" /\ exc.type = "RuntimeError" /\ ret = "none"
             /\ exc.code = wire.code /\ exc.body = wire.text
        ELSE IF "location" \in DOMAIN wire.headers
        THEN /\ pc = "poll" /\ status = "running" /\ steps = <<>>
             /\ loc = wire.headers.location /\ nGet = 0
        ELSE pc = "except" /\ exc.type = "KeyError"

C3_Witness ==
    /\ Answered("POST", POST_URL)
    /\ wire.code = 500 /\ wire.text = [raw |-> "e2"]
    /\ exc.type = "RuntimeError"

StepA == <<"a", ":", "x">>
StepB == <<"b", ":", "y">>

\* the log lines of a list of steps
Formatted(l) == [i \in 1..Len(l) |-> format_step(l[i])]

\* the state holds a parsed task response with the given status
TaskReports(st) ==
    /\ Answered("GET", TaskLocation)
    /\ wire.code < 400
    /\ "json" \in DOMAIN wire.text
    /\ "status" \in DOMAIN wire.text.json
    /\ wire.text.json.status = st

\* C4: while every task response has had the steps of the one before as a
\* prefix, the log holds the steps of the last response, each once and in
\* the server's order (a then a,b gives the lines of a and of b), and a
\* response with status ok makes configure return True.
C4_AppendOnlyLogsOnce ==
    /\ appendOnly => logged = Formatted(reported)
    /\ (appendOnly /\ reported = <<StepA>>) => logged = <<"* a: x">>
    /\ (appendOnly /\ reported = <<StepA, StepB>>) => logged = <<"* a: x", "* b: y">>
    /\ TaskReports("ok") => (pc = "returned" /\ ret = "True" /\ exc = NoExc)

C4_Witness ==
    /\ TaskReports("ok") /\ appendOnly /\ nGet = 3
    /\ reported = <<StepA, StepB>>
    /\ logged = <<"* a: x", "* b: y">>
    /\ ret = "True"

\* C5 as claimed: every task GET answered with a status outside 2xx, 401
\* and 403 included, raises RuntimeError.
C5_Original ==
    (Answered("GET", TaskLocation) /\ ~Success(wire.code))
        => (pc = "except" /\ exc.type = "RuntimeError")

\* C5: a task GET answered with 400 or more ends configure at once, with
\* AuthenticationError on 401 and 403 and with RuntimeError on any other
\* such status, and a further task GET is only sent after a response below
\* 400.
C5_FailedGetEndsPolling ==
    /\ []((Answered("GET", TaskLocation) /\ wire.code >= 400) =>
            /\ pc = "except" /\ ret = "none"
            /\ exc.type = IF wire.code \in {401, 403}
                          THEN "AuthenticationError" ELSE "RuntimeError")
    /\ [][(nGet' = nGet + 1 /\ nGet > 0) =>
            (wire.kind = "response" /\ wire.code < 400)]_vars

C5_Witness ==
    /\ Answered("GET", TaskLocation) /\ nGet = 2
    /\ wire.code = 403
    /\ pc = "except" /\ exc.type = "AuthenticationError"

\* the report of format_error for the bodies of the model
ExpectedReport(body) ==
    IF "error" \notin DOMAIN body
    THEN <<"Error: unexpected server response">>
    ELSE IF body.error = ErrX
    THEN <<"Error:", "  id: X", "", "  description: bad thing", "">>
    ELSE IF body.error = ErrOnNodes
    THEN <<"Error:", "  id: X", "  nodes:", "    h1", "    h2",
           "  description: bad thing", "">>
    ELSE <<"Error:", "  id: errorOnNodes", "  nodes:", "    h1", "    h3",
           "  description: error on nodes", "  details:", "    error:",
           "      id: X", "      description: bad thing",
           "    hostnames: ['h2', 'h1']", "">>

\* C6: a parsed task response with status ok makes configure return True;
\* one with another status than running, or with none, makes it raise
\* RuntimeError with the report of the error field, or with the generic
\* message when the field is missing; a further task GET is only sent after
\* a response with status running.
C6_SettledTaskEndsPolling ==
    /\ [](TaskReports("running") => pc = "poll")
    /\ [](TaskReports("ok") => (pc = "returned" /\ ret = "True"))
    /\ []((/\ Answered("GET", TaskLocation) /\ wire.code < 400
           /\ "json" \in DOMAIN wire.text
           /\ Settled(wire.text.json)) =>
            /\ pc = "except" /\ ret = "none"
            /\ exc.type = "RuntimeError"
            /\ exc.body = [lines |-> ExpectedReport(wire.text.json)])
    /\ [][(nGet' = nGet + 1 /\ nGet > 0) => TaskReports("running")]_vars

C6_Witness ==
    /\ Answered("GET", TaskLocation) /\ nGet = 2
    /\ "json" \in DOMAIN wire.text
    /\ "status" \notin DOMAIN wire.text.json
    /\ "error" \in DOMAIN wire.text.json
    /\ wire.text.json.error = ErrOnNodes
    /\ exc.type = "RuntimeError"
    /\ exc.body.lines[3] = "  nodes:"

\* C7: a call of do_auth_request sends one request; answered with 401 or
\* 403 it raises AuthenticationError, answered with any other status it
\* returns that response; no step of the program sends more than one
\* authenticated request.
C7_OneRequestPerCall ==
    /\ [](call.fn = "do_auth_request" =>
            /\ Len(call.sent) = 1
            /\ wire.kind = "response" =>
                 IF wire.code \in {401, 403}
                 THEN call.exc = "AuthenticationError" /\ call.val = NoResponse
                 ELSE call.exc = "none" /\ call.val = wire)
    /\ [][\/ (nPost + nGet + nHealth)' = nPost + nGet + nHealth
          \/ (nPost + nGet + nHealth)' = nPost + nGet + nHealth + 1
          \/ (nPost + nGet + nHealth)' = 0]_vars

C7_Witness ==
    /\ call.fn = "do_auth_request"
    /\ wire.kind = "response" /\ wire.code = 500
    /\ call.exc = "none" /\ call.val = wire
    /\ nGet = 1

\* the state holds the observation of a health request
HealthObserved ==
    /\ call.sent # <<>>
    /\ call.sent[1].url = NAGIOS_URL
    /\ wire.kind \in {"response", "error"}

\* the observation is a document whose status attribute is ok
IsUp ==
    /\ wire.kind = "response" /\ wire.code < 400
    /\ "xml" \in DOMAIN wire.text
    /\ "status" \in DOMAIN wire.text.xml
    /\ wire.text.xml.status = "ok"

\* the observation is a failed request, an error status or a document whose
\* status attribute is not ok
IsDown ==
    \/ wire.kind = "error"
    \/ wire.code >= 400
    \/ /\ "xml" \in DOMAIN wire.text
       /\ "status" \in DOMAIN wire.text.xml
       /\ wire.text.xml.status # "ok"

\* C8: wait_for_workers sleeps once after every observation that is not ok
\* and goes on to the next one until the 120th, which raises the timeout;
\* an observation with status ok ends the wait without a sleep; there are
\* never more than 120 health requests.
C8_WaitTimeout ==
    /\ nHealth <= 120
    /\ pc = "wait" => (nHealth = retries /\ sleeps = retries /\ retries < 120)
    /\ (HealthObserved /\ IsUp) =>
          (pc = "details" /\ exc = NoExc /\ sleeps = nHealth - 1)
    /\ (HealthObserved /\ IsDown) =>
          /\ sleeps = nHealth
          /\ IF nHealth = 120
             THEN /\ pc = "except" /\ exc.type = "RuntimeError"
                  /\ exc.text = "Timeout waiting for the Onepanel service readiness"
             ELSE pc = "wait" /\ exc = NoExc
    /\ exc.text = "Timeout waiting for the Onepanel service readiness" =>
          (nHealth = 120 /\ sleeps = 120)

C8_Witness ==
    /\ HealthObserved /\ IsDown
    /\ nHealth = 120 /\ sleeps = 120
    /\ pc = "except"
    /\ exc.text = "Timeout waiting for the Onepanel service readiness"

\* C9 as claimed: an AuthenticationError raised by do_auth_request, for the
\* configuration POST, a task GET or a health GET, reaches the except
\* clauses of __main__ as AuthenticationError.
C9_Original ==
    (call.fn = "do_auth_request" /\ call.exc = "AuthenticationError")
        => (pc = "except" /\ exc.type = "AuthenticationError")

\* C10 as claimed: every request sent carries the username onepanel and the
\* passphrase.
C10_Original ==
    \A i \in 1..Len(call.sent) :
        call.sent[i].auth = <<"onepanel", envPassphrase>>

\* C10: every configuration POST, task GET and health GET carries the
\* username onepanel and the passphrase of the environment; the passphrase
\* PUT carries no credentials and has the passphrase in its body.
C10_BasicAuth ==
    \A i \in 1..Len(call.sent) :
        IF call.sent[i].method = "PUT"
        THEN /\ call.sent[i].auth = <<>>
             /\ call.sent[i].data = [json |-> [newPassphrase |-> envPassphrase]]
        ELSE /\ call.sent[i].method \in {"POST", "GET"}
             /\ call.sent[i].auth = <<"onepanel", envPassphrase>>

C10_Witness ==
    /\ HealthObserved
    /\ call.sent[1].method = "GET"
    /\ call.sent[1].auth = <<"onepanel", "p2">>
    /\ wire.kind = "response" /\ wire.code = 200

\* C11: in batch mode without the passphrase variable, configure raises
\* MissingVariableError before any request is sent, and no request is sent
\* later in that run either: the error reaches __main__, and configure is
\* not called again.
C11_MissingPassphraseNoRequest ==
    /\ [][(pc = "configure" /\ envPassphrase = None) =>
            (pc' = "except" /\ exc'.type = "MissingVariableError" /\ ret' = "none")]_vars
    /\ [](exc.type = "MissingVariableError" =>
            /\ envPassphrase = None /\ call = NoCall /\ wire = NoResponse
            /\ nPut = 0 /\ nPost = 0 /\ nGet = 0 /\ nHealth = 0)
    /\ [][(pc = "except" /\ exc.type = "MissingVariableError") =>
            (pc' = "details" /\ caught' = "MissingVariableError")]_vars

C11_Witness ==
    /\ pc = "except" /\ exc.type = "MissingVariableError"
    /\ batchMode /\ envPassphrase = None
    /\ srvPassphrase = None /\ ~srvDeployed
    /\ nPut = 0

\* the document ONEZONE_CONFIG holds
Given == safe_load(environ_get(onezoneConfig))

\* the keys of a mapping
KeysOf(d) == {d.dict[i][1] : i \in 1..Len(d.dict)}

\* two mappings have the same entries, the one of key apart
SameBut(d, e, key) ==
    /\ KeysOf(d) \ {key} = KeysOf(e) \ {key}
    /\ \A k \in KeysOf(d) \ {key} : Lookup(d, k) = Lookup(e, k)

\* the caller's onepanel entry, an empty mapping when there is none
GivenOnepanel == DictGet(Given, "onepanel", Dict(<<>>))

\* the request has onepanel.interactiveDeployment, the caller's or False,
\* and is the caller's document otherwise
Marked ==
    /\ Has(config, "onepanel")
    /\ Has(Lookup(config, "onepanel"), "interactiveDeployment")
    /\ Lookup(Lookup(config, "onepanel"), "interactiveDeployment") =
          DictGet(GivenOnepanel, "interactiveDeployment", Bool(FALSE))
    /\ SameBut(Lookup(config, "onepanel"), GivenOnepanel, "interactiveDeployment")
    /\ SameBut(config, Given, "onepanel")

\* C12 as claimed: every request get_batch_config returns, the one for an
\* empty or absent configuration included, has onepanel.interactiveDeployment.
C12_Original ==
    config # NoConfig =>
        /\ Has(config, "onepanel")
        /\ Has(Lookup(config, "onepanel"), "interactiveDeployment")

\* C12: for an absent or empty configuration get_batch_config returns the
\* empty mapping; for any other one it returns the caller's mapping with
\* onepanel.interactiveDeployment, False when the caller did not give it and
\* the caller's value when they did, all other entries as supplied; that
\* request is the body of the configuration POST.
C12_InteractiveDeploymentDefault ==
    /\ [](config # NoConfig =>
            IF Falsy(Given) THEN config = Dict(<<>>) ELSE Marked)
    /\ [][(pc = "post" /\ nPost' = nPost + 1) =>
            call'.sent[1].data = [yaml |-> config]]_vars

C12_Witness ==
    /\ pc = "post"
    /\ onezoneConfig = Yaml(Dict(<< <<"cluster", Str("c")>>,
                                    <<"onepanel", Dict(<< <<"x", Str("1")>> >>)>> >>))
    /\ config = Dict(<< <<"cluster", Str("c")>>,
                        <<"onepanel", Dict(<< <<"x", Str("1")>>,
                                              <<"interactiveDeployment", Bool(FALSE)>> >>)>> >>)

\* configure has raised the report of the error e of a task response
Reported(e) ==
    /\ Answered("GET", TaskLocation)
    /\ "json" \in DOMAIN wire.text
    /\ "error" \in DOMAIN wire.text.json
    /\ wire.text.json.error = e
    /\ exc.type = "RuntimeError"
    /\ "lines" \in DOMAIN exc.body

\* line is a line of the report
HasLine(line) == \E i \in 1..Len(exc.body.lines) : exc.body.lines[i] = line

ApiAnswer ==
    /\ wire.kind = "response"
    /\ wire.code >= 400 \/ "json" \in DOMAIN wire.text

\* C14: every iteration of the polling loop sends one task GET, whatever
\* the number of iterations before it; after an answer of the task API
\* configure stays in the loop when the answer is a success with status
\* running and leaves it on every other answer, so that N running answers
\* and one other answer make N+1 GETs; with a server that stops answering
\* running, configure leaves the loop.
C14_PollsUntilSettled ==
    /\ [](pc = "poll" => (status = "running" /\ sleeps = nGet))
    /\ [][pc = "poll" => (nGet' = nGet + 1 /\ nGet' = sleeps + 1)]_vars
    /\ [][(pc = "poll" /\ ApiAnswer') =>
            (pc' = "poll" <=> TaskReports("running")')]_vars
    /\ (pc = "poll") ~> (pc \in {"returned", "except"})

C14_Witness ==
    /\ nGet = MaxPolls + 1
    /\ sleeps = MaxPolls + 1
    /\ ApiAnswer
    /\ pc = "except"
    /\ exc.type = "RuntimeError"
    /\ exc.text = "format_error"

\* the exception was neither an AuthenticationError nor a missing passphrase
\* and reached the outer except clause
Failed == caught = "Exception"

\* C15: with debug mode off, an exception that is neither an
\* AuthenticationError nor a missing passphrase ends the process with status
\* 1 and without the lock file; the lock file exists only in a process that
\* did not exit, and with debug mode off only when no such exception
\* occurred; wait_for_workers runs only after configure returned False.
C15_FatalExitsWithoutLock ==
    /\ []((Failed /\ debugMode = "false") =>
            (pc = "exited" /\ exitCode = 1 /\ ~lockFile))
    /\ [](lockFile => (exitCode = -1 /\ (Failed => debugMode = "true")))
    /\ []((pc = "wait" \/ nHealth > 0) => (batchMode /\ ret = "False"))
    /\ [][(/\ pc = "except"
           /\ exc.type \notin {"AuthenticationError", "MissingVariableError"}
           /\ debugMode' = "false") =>
            (pc' = "exited" /\ exitCode' = 1 /\ ~lockFile')]_vars
    /\ [][pc = "exited" => (pc' = "start" /\ ~lockFile')]_vars

C15_Witness ==
    /\ pc = "exited" /\ exitCode = 1 /\ ~lockFile
    /\ debugMode = "false"
    /\ exc.text = "Timeout waiting for the Onepanel service readiness"
    /\ ret = "False"

====
